---- MODULE Spec2Model ----
(***************************************************************************)
(* Model of src/src/utils/shard.rs: the TenantShardId and ShardIndex       *)
(* identifiers, their text and packed encodings, their serde adapters and  *)
(* their derived ordering.                                                 *)
(*                                                                         *)
(* A text is a sequence of one-character strings (all ASCII, so the byte   *)
(* length s.len() is the length of the sequence); a byte is an integer in  *)
(* 0..255; a tenant id is a sequence of TenantIdLen bytes.  A fallible     *)
(* operation returns Ok(v) or an error record.                             *)
(***************************************************************************)
EXTENDS Integers, Sequences, FiniteSets, TLC

\* ------------------------------------------------------------ constants

\* [u8; 16]: the raw tenant id
TenantIdLen == 16
\* s.len() == 32: the legacy text form
LegacyLen == 32
\* s.len() == 37: the sharded text form
ShardedLen == 37
\* s.len() == 4: the ShardIndex text form
SlugLen == 4
\* [u8; 18]: the packed TenantShardId
PackedLen == 18

\* ------------------------------------------------------- bounds of the inputs

\* shard numbers and counts are drawn from 0..MaxShard and two large bytes
MaxShard == 1
\* texts are tried with up to MaxExtra characters appended
MaxExtra == 1

\* ------------------------------------------------------------- results

Ok(v) == [ok |-> TRUE, value |-> v]

Err(e) == [ok |-> FALSE, err |-> e]

InvalidHexCharacter(c, i) == [ok |-> FALSE, err |-> "InvalidHexCharacter", c |-> c, index |-> i]

\* ------------------------------------------------------------- hex codec

LowerHex == <<"0", "1", "2", "3", "4", "5", "6", "7", "8", "9", "a", "b", "c", "d", "e", "f">>

UpperHex == <<"A", "B", "C", "D", "E", "F">>

\* hex's val(c): the digit's value, or -1 for a character that is no hex digit.
\* Both cases of a..f are digits.
HexVal(c) ==
    IF \E d \in 1..16 : LowerHex[d] = c
    THEN (CHOOSE d \in 1..16 : LowerHex[d] = c) - 1
    ELSE IF \E k \in 1..6 : UpperHex[k] = c
         THEN (CHOOSE k \in 1..6 : UpperHex[k] = c) + 9
         ELSE -1

\* hex::decode_to_slice(data, out) with out.len() = n
DecodeToSlice(data, n) ==
    IF Len(data) % 2 # 0 THEN Err("OddLength")
    ELSE IF Len(data) \div 2 # n THEN Err("InvalidStringLength")
    ELSE IF \E i \in 1..Len(data) : HexVal(data[i]) < 0
         THEN LET i == CHOOSE j \in 1..Len(data) :
                           /\ HexVal(data[j]) < 0
                           /\ \A k \in 1..(j - 1) : HexVal(data[k]) >= 0
              IN InvalidHexCharacter(data[i], i - 1)
         ELSE Ok([i \in 1..n |-> HexVal(data[2 * i - 1]) * 16 + HexVal(data[2 * i])])

\* FmtByte with "{:02X}" written for "{:02x}"
FmtByte_Upper(b) ==
    LET digits == <<"0", "1", "2", "3", "4", "5", "6", "7", "8", "9", "A", "B", "C", "D", "E", "F">>
    IN <<digits[(b \div 16) + 1], digits[(b % 16) + 1]>>

\* "{:02x}" of a u8: two lowercase hex digits, zero padded
FmtByte(b) == <<LowerHex[(b \div 16) + 1], LowerHex[(b % 16) + 1]>>

\* ------------------------------------------------------------- TenantId
\* crate::utils::id::TenantId: 16 raw bytes with a 32-character hex text form.

RECURSIVE EncodeHex(_)
EncodeHex(bytes) ==
    IF bytes = <<>> THEN <<>> ELSE FmtByte(Head(bytes)) \o EncodeHex(Tail(bytes))

\* Display for TenantId
TenantId_fmt(t) == EncodeHex(t)

\* TenantId::from_str / TenantId::from_hex
TenantId_from_hex(s) == DecodeToSlice(s, TenantIdLen)

RECURSIVE BytesCmp(_, _)
BytesCmp(a, b) ==
    IF a = <<>> THEN (IF b = <<>> THEN "Equal" ELSE "Less")
    ELSE IF b = <<>> THEN "Greater"
    ELSE IF Head(a) < Head(b) THEN "Less"
    ELSE IF Head(a) > Head(b) THEN "Greater"
    ELSE BytesCmp(Tail(a), Tail(b))

\* Ord for TenantId
TenantId_cmp(a, b) == BytesCmp(a, b)

\* ------------------------------------------------------------- Display

\* ShardSlug_fmt with the two arguments of write! exchanged
ShardSlug_fmt_Swapped(x) == FmtByte(x.shard_count) \o FmtByte(x.shard_number)

\* Display for ShardSlug: "{:02x}{:02x}" of shard_number, shard_count
ShardSlug_fmt(x) == FmtByte(x.shard_number) \o FmtByte(x.shard_count)

\* TenantShardId_fmt taking the single-shard case for the legacy case too
TenantShardId_fmt_SingleAsLegacy(x) ==
    IF x.shard_count > 1
    THEN TenantId_fmt(x.tenant_id) \o <<"-">> \o FmtByte(x.shard_number) \o FmtByte(x.shard_count)
    ELSE TenantId_fmt(x.tenant_id)

\* Display for TenantShardId
TenantShardId_fmt(x) ==
    IF x.shard_count # 0
    THEN TenantId_fmt(x.tenant_id) \o <<"-">> \o ShardSlug_fmt(x)
    ELSE TenantId_fmt(x.tenant_id)

\* Display for ShardIndex
ShardIndex_fmt(x) == FmtByte(x.shard_number) \o FmtByte(x.shard_count)

\* ------------------------------------------------------------- FromStr

\* TenantShardId_from_str giving the legacy form ShardCount(1)
TenantShardId_from_str_LegacyAsSingle(s) ==
    IF Len(s) = LegacyLen
    THEN LET t == TenantId_from_hex(s)
         IN IF t.ok
            THEN Ok([tenant_id |-> t.value, shard_number |-> 0, shard_count |-> 1])
            ELSE t
    ELSE IF Len(s) = ShardedLen
    THEN LET t == TenantId_from_hex(SubSeq(s, 1, LegacyLen))
             p == DecodeToSlice(SubSeq(s, LegacyLen + 2, ShardedLen), 2)
         IN IF ~t.ok THEN t
            ELSE IF ~p.ok THEN p
            ELSE Ok([tenant_id |-> t.value,
                     shard_number |-> p.value[1],
                     shard_count |-> p.value[2]])
    ELSE Err("InvalidStringLength")

\* TenantShardId_from_str with s.len() >= 37 written for s.len() == 37
TenantShardId_from_str_Truncating(s) ==
    IF Len(s) = LegacyLen
    THEN LET t == TenantId_from_hex(s)
         IN IF t.ok
            THEN Ok([tenant_id |-> t.value, shard_number |-> 0, shard_count |-> 0])
            ELSE t
    ELSE IF Len(s) >= ShardedLen
    THEN LET t == TenantId_from_hex(SubSeq(s, 1, LegacyLen))
             p == DecodeToSlice(SubSeq(s, LegacyLen + 2, ShardedLen), 2)
         IN IF ~t.ok THEN t
            ELSE IF ~p.ok THEN p
            ELSE Ok([tenant_id |-> t.value,
                     shard_number |-> p.value[1],
                     shard_count |-> p.value[2]])
    ELSE Err("InvalidStringLength")

\* TenantShardId_from_str verifying that bytes[32] is '-'
TenantShardId_from_str_CheckedSeparator(s) ==
    IF Len(s) = LegacyLen
    THEN LET t == TenantId_from_hex(s)
         IN IF t.ok
            THEN Ok([tenant_id |-> t.value, shard_number |-> 0, shard_count |-> 0])
            ELSE t
    ELSE IF Len(s) = ShardedLen
    THEN LET t == TenantId_from_hex(SubSeq(s, 1, LegacyLen))
             p == DecodeToSlice(SubSeq(s, LegacyLen + 2, ShardedLen), 2)
         IN IF ~t.ok THEN t
            ELSE IF s[LegacyLen + 1] # "-"
            THEN InvalidHexCharacter(s[LegacyLen + 1], LegacyLen)
            ELSE IF ~p.ok THEN p
            ELSE Ok([tenant_id |-> t.value,
                     shard_number |-> p.value[1],
                     shard_count |-> p.value[2]])
    ELSE Err("InvalidStringLength")

\* FromStr for TenantShardId
TenantShardId_from_str(s) ==
    IF Len(s) = LegacyLen
    THEN LET t == TenantId_from_hex(s)
         IN IF t.ok
            THEN Ok([tenant_id |-> t.value, shard_number |-> 0, shard_count |-> 0])
            ELSE t
    ELSE IF Len(s) = ShardedLen
    THEN LET t == TenantId_from_hex(SubSeq(s, 1, LegacyLen))
             p == DecodeToSlice(SubSeq(s, LegacyLen + 2, ShardedLen), 2)
         IN IF ~t.ok THEN t
            ELSE IF ~p.ok THEN p
            ELSE Ok([tenant_id |-> t.value,
                     shard_number |-> p.value[1],
                     shard_count |-> p.value[2]])
    ELSE Err("InvalidStringLength")

\* FromStr for ShardIndex
ShardIndex_from_str(s) ==
    IF Len(s) = SlugLen
    THEN LET p == DecodeToSlice(s, 2)
         IN IF p.ok
            THEN Ok([shard_number |-> p.value[1], shard_count |-> p.value[2]])
            ELSE p
    ELSE Err("InvalidStringLength")

\* From<[u8; 18]> for TenantShardId
TenantShardId_from_bytes(b) ==
    [tenant_id |-> SubSeq(b, 1, TenantIdLen),
     shard_number |-> b[TenantIdLen + 1],
     shard_count |-> b[TenantIdLen + 2]]

\* ------------------------------------------------------------- Ord

ByteCmp(a, b) == IF a < b THEN "Less" ELSE IF a > b THEN "Greater" ELSE "Equal"

\* TenantShardId_cmp with the shard fields declared before tenant_id
TenantShardId_cmp_ShardFirst(a, b) ==
    IF ByteCmp(a.shard_number, b.shard_number) # "Equal"
    THEN ByteCmp(a.shard_number, b.shard_number)
    ELSE IF ByteCmp(a.shard_count, b.shard_count) # "Equal"
    THEN ByteCmp(a.shard_count, b.shard_count)
    ELSE TenantId_cmp(a.tenant_id, b.tenant_id)

\* #[derive(PartialOrd, Ord)] on TenantShardId: the fields in declaration order
TenantShardId_cmp(a, b) ==
    IF TenantId_cmp(a.tenant_id, b.tenant_id) # "Equal"
    THEN TenantId_cmp(a.tenant_id, b.tenant_id)
    ELSE IF ByteCmp(a.shard_number, b.shard_number) # "Equal"
    THEN ByteCmp(a.shard_number, b.shard_number)
    ELSE ByteCmp(a.shard_count, b.shard_count)

\* ------------------------------------------------------------- serde
\* What a serializer is handed, and what a deserializer reads: a string, a
\* sequence of elements, or a value of any other shape (a number, a map, ...).

StrToken(s) == [shape |-> "str", s |-> s]

SeqToken(e) == [shape |-> "seq", elems |-> e]

OtherToken == [shape |-> "other"]

\* TenantShardId_serialize with packed[16] and packed[17] exchanged
TenantShardId_serialize_Swapped(x, hr) ==
    IF hr
    THEN StrToken(TenantShardId_fmt(x))
    ELSE LET packed == [i \in 1..PackedLen |->
                           IF i <= TenantIdLen THEN x.tenant_id[i]
                           ELSE IF i = TenantIdLen + 1 THEN x.shard_count
                           ELSE x.shard_number]
         IN SeqToken(packed)

\* Serialize for TenantShardId; hr is serializer.is_human_readable()
TenantShardId_serialize(x, hr) ==
    IF hr
    THEN StrToken(TenantShardId_fmt(x))
    ELSE LET packed == [i \in 1..PackedLen |->
                           IF i <= TenantIdLen THEN x.tenant_id[i]
                           ELSE IF i = TenantIdLen + 1 THEN x.shard_number
                           ELSE x.shard_count]
         IN SeqToken(packed)

\* IdVisitor::expecting
IdVisitor_expecting(hr) ==
    IF hr THEN "value in form of hex string"
    ELSE "value in form of integer array([u8; 18])"

InvalidType(shape, expecting) ==
    [ok |-> FALSE, err |-> "invalid_type", unexpected |-> shape, expecting |-> expecting]

\* IdVisitor::visit_str: the parse, its error wrapped by E::custom
IdVisitor_visit_str(v) ==
    LET r == TenantShardId_from_str(v)
    IN IF r.ok THEN r ELSE [ok |-> FALSE, err |-> "custom", cause |-> r]

\* IdVisitor::visit_seq: [u8; 18] is read element by element from the sequence
\* (a missing element is invalid_length, an element that is no u8 is refused),
\* then converted.  Elements after the 18th are not read here.
IdVisitor_visit_seq(elems) ==
    IF \E i \in 1..PackedLen : i > Len(elems) \/ elems[i] \notin 0..255
    THEN LET i == CHOOSE j \in 1..PackedLen :
                      /\ (j > Len(elems) \/ elems[j] \notin 0..255)
                      /\ \A k \in 1..(j - 1) : k <= Len(elems) /\ elems[k] \in 0..255
         IN IF i > Len(elems)
            THEN [ok |-> FALSE, err |-> "invalid_length", len |-> i - 1]
            ELSE [ok |-> FALSE, err |-> "invalid_value", index |-> i - 1]
    ELSE Ok(TenantShardId_from_bytes(SubSeq(elems, 1, PackedLen)))

\* The visitor as a deserializer drives it for a token of a given shape.  It
\* implements visit_str and visit_seq whatever is_human_readable_deserializer
\* is; every other visit_* is serde's default, an invalid_type error built from
\* expecting.  A deserializer that has handed out a sequence refuses elements
\* left unread.
IdVisitor_visit(hr, tok) ==
    IF tok.shape = "str" THEN IdVisitor_visit_str(tok.s)
    ELSE IF tok.shape = "seq"
    THEN LET r == IdVisitor_visit_seq(tok.elems)
         IN IF r.ok /\ Len(tok.elems) > PackedLen
            THEN [ok |-> FALSE, err |-> "invalid_length", len |-> Len(tok.elems)]
            ELSE r
    ELSE InvalidType(tok.shape, IdVisitor_expecting(hr))

\* The two ways a serde Deserializer treats deserialize_str / deserialize_tuple:
\* "typed" reads exactly what the call asks for and refuses a token of another
\* shape; "any" is self-describing and forwards the call to deserialize_any, so
\* the token's own shape picks the visitor's method.
Dispatches == {"typed", "any"}

\* TenantShardId_deserialize with the two branches of is_human_readable() exchanged
TenantShardId_deserialize_ModeExchanged(hr, dispatch, tok) ==
    IF ~hr
    THEN IF dispatch = "typed" /\ tok.shape # "str"
         THEN InvalidType(tok.shape, IdVisitor_expecting(TRUE))
         ELSE IdVisitor_visit(TRUE, tok)
    ELSE IF dispatch = "typed" /\ tok.shape # "seq"
         THEN InvalidType(tok.shape, IdVisitor_expecting(FALSE))
         ELSE IdVisitor_visit(FALSE, tok)

\* Deserialize for TenantShardId; hr is deserializer.is_human_readable()
TenantShardId_deserialize(hr, dispatch, tok) ==
    IF hr
    THEN \* deserializer.deserialize_str(IdVisitor { .. true })
         IF dispatch = "typed" /\ tok.shape # "str"
         THEN InvalidType(tok.shape, IdVisitor_expecting(TRUE))
         ELSE IdVisitor_visit(TRUE, tok)
    ELSE \* deserializer.deserialize_tuple(18, IdVisitor { .. false })
         IF dispatch = "typed" /\ tok.shape # "seq"
         THEN InvalidType(tok.shape, IdVisitor_expecting(FALSE))
         ELSE IdVisitor_visit(FALSE, tok)

\* ------------------------------------------------------------- inputs

ByteSamples == (0..MaxShard) \cup {10, 255}

TenantOf(fill, pos, b) == [i \in 1..TenantIdLen |-> IF i = pos THEN b ELSE fill]

Tenants == {TenantOf(0, 1, 0), TenantOf(0, TenantIdLen, 1), TenantOf(0, 1, 1),
            TenantOf(171, 8, 255)}

\* values built by direct field construction
Ids == [tenant_id : Tenants, shard_number : ByteSamples, shard_count : ByteSamples]

CmpIds == [tenant_id : {TenantOf(0, TenantIdLen, 1), TenantOf(0, 1, 1)},
           shard_number : 0..MaxShard, shard_count : 0..MaxShard]

Indexes == [shard_number : ByteSamples, shard_count : ByteSamples]

Fill(c, n) == [i \in 1..n |-> c]

TenantTexts == {Fill("0", LegacyLen),
                [Fill("0", LegacyLen) EXCEPT ![LegacyLen] = "1"],
                [Fill("a", LegacyLen) EXCEPT ![1] = "f", ![2] = "9"]}

SlugTexts == {<<a, b, c, d>> : a \in {"0", "a"}, b \in {"0", "1"},
                               c \in {"0", "f"}, d \in {"0", "1", "a"}}

\* the documented text forms
CanonicalTexts == TenantTexts \cup {t \o <<"-">> \o g : t \in TenantTexts, g \in SlugTexts}

VariantBases == {Fill("0", LegacyLen), <<"0", "1", "0", "4">>}
                \cup {Fill("0", LegacyLen) \o <<"-">> \o g :
                        g \in {<<"0", "0", "0", "0">>, <<"0", "1", "0", "4">>, <<"a", "1", "f", "a">>}}

AltChars == {"0", "f", "A", "g", "-", " "}

\* one character replaced, a prefix taken, or characters appended
Variants(s) ==
    {[s EXCEPT ![i] = c] : i \in 1..Len(s), c \in AltChars}
    \cup {SubSeq(s, 1, n) : n \in 0..Len(s)}
    \cup {s \o Fill(c, n) : c \in AltChars, n \in 1..MaxExtra}

Texts == CanonicalTexts \cup SlugTexts \cup UNION {Variants(s) : s \in VariantBases}

PackedBases == {TenantShardId_serialize(x, FALSE).elems :
                   x \in [tenant_id : {TenantOf(171, 8, 255)},
                          shard_number : {0, 1}, shard_count : {0, 4}]}

SeqVariants(e) ==
    {e, SubSeq(e, 1, Len(e) - 1), e \o <<0>>, [e EXCEPT ![1] = 256],
     [e EXCEPT ![PackedLen] = 256]}

Tokens == {StrToken(s) : s \in Texts}
          \cup {SeqToken(e) : e \in UNION {SeqVariants(b) : b \in PackedBases}}
          \cup {OtherToken}

Inputs == {[kind |-> "id", id |-> x] : x \in Ids}
          \cup {[kind |-> "index", index |-> x] : x \in Indexes}
          \cup {[kind |-> "token", tok |-> t] : t \in Tokens}
          \cup {[kind |-> "cmp", a |-> a, b |-> b, c |-> c] : a \in CmpIds, b \in CmpIds, c \in CmpIds}

\* ------------------------------------------------------------- state

VARIABLES
    input,  \* what the caller starts from: a value, a token, or values to compare
    enc,    \* the encoding in hand: the input token, or what fmt / serialize produced
    dec,    \* the outcome of decoding enc
    re,     \* the text of formatting the decoded value again
    cmp     \* the outcome of comparing the input values

vars == <<input, enc, dec, re, cmp>>

None == [by |-> "none"]

Init ==
    /\ input \in Inputs
    /\ enc = IF input.kind = "token" THEN [by |-> "input", tok |-> input.tok] ELSE None
    /\ dec = None
    /\ re = None
    /\ cmp = None

\* x.to_string()
Fmt ==
    /\ input.kind = "id" /\ enc = None
    /\ enc' = [by |-> "fmt", tok |-> StrToken(TenantShardId_fmt(input.id))]
    /\ UNCHANGED <<input, dec, re, cmp>>

\* x.serialize(serializer)
Serialize ==
    /\ input.kind = "id" /\ enc = None
    /\ \E hr \in BOOLEAN :
          enc' = [by |-> "serialize", hr |-> hr, tok |-> TenantShardId_serialize(input.id, hr)]
    /\ UNCHANGED <<input, dec, re, cmp>>

\* index.to_string()
IndexFmt ==
    /\ input.kind = "index" /\ enc = None
    /\ enc' = [by |-> "index_fmt", tok |-> StrToken(ShardIndex_fmt(input.index))]
    /\ UNCHANGED <<input, dec, re, cmp>>

\* s.parse::<TenantShardId>()
FromStr ==
    /\ enc # None /\ enc.tok.shape = "str" /\ dec = None
    /\ dec' = [by |-> "from_str", res |-> TenantShardId_from_str(enc.tok.s)]
    /\ UNCHANGED <<input, enc, re, cmp>>

\* s.parse::<ShardIndex>()
IndexFromStr ==
    /\ enc # None /\ enc.tok.shape = "str" /\ dec = None
    /\ dec' = [by |-> "index_from_str", res |-> ShardIndex_from_str(enc.tok.s)]
    /\ UNCHANGED <<input, enc, re, cmp>>

\* TenantShardId::from(b) for b: [u8; 18]
FromBytes ==
    /\ enc # None /\ enc.tok.shape = "seq" /\ dec = None
    /\ Len(enc.tok.elems) = PackedLen
    /\ \A i \in 1..PackedLen : enc.tok.elems[i] \in 0..255
    /\ dec' = [by |-> "from_bytes", res |-> Ok(TenantShardId_from_bytes(enc.tok.elems))]
    /\ UNCHANGED <<input, enc, re, cmp>>

\* TenantShardId::deserialize(deserializer)
Deserialize ==
    /\ enc # None /\ dec = None
    /\ \E hr \in BOOLEAN, d \in Dispatches :
          dec' = [by |-> "deserialize", hr |-> hr, dispatch |-> d,
                  res |-> TenantShardId_deserialize(hr, d, enc.tok)]
    /\ UNCHANGED <<input, enc, re, cmp>>

\* formatting the value a decoder produced
Refmt ==
    /\ dec # None /\ dec.by # "index_from_str" /\ dec.res.ok /\ re = None
    /\ re' = [by |-> "fmt", s |-> TenantShardId_fmt(dec.res.value)]
    /\ UNCHANGED <<input, enc, dec, cmp>>

\* a.cmp(&b), b.cmp(&c), a.cmp(&c)
Cmp ==
    /\ input.kind = "cmp" /\ cmp = None
    /\ cmp' = [by |-> "cmp",
               ab |-> TenantShardId_cmp(input.a, input.b),
               bc |-> TenantShardId_cmp(input.b, input.c),
               ac |-> TenantShardId_cmp(input.a, input.c)]
    /\ UNCHANGED <<input, enc, dec, re>>

Next ==
    \/ Fmt
    \/ Serialize
    \/ IndexFmt
    \/ FromStr
    \/ IndexFromStr
    \/ FromBytes
    \/ Deserialize
    \/ Refmt
    \/ Cmp

Spec == Init /\ [][Next]_vars

\* ------------------------------------------------------------- properties

HexDigits == {"0", "1", "2", "3", "4", "5", "6", "7", "8", "9",
              "a", "b", "c", "d", "e", "f", "A", "B", "C", "D", "E", "F"}

LowerHexDigits == {"0", "1", "2", "3", "4", "5", "6", "7", "8", "9",
                   "a", "b", "c", "d", "e", "f"}

\* the legacy sentinel of the data model: shard_count == 0 only with shard_number == 0
Sentinel(x) == x.shard_count = 0 => x.shard_number = 0

\* the parse rule: 32 hex digits, or 32 hex digits, any character, 4 hex digits
ParseRule(s) ==
    \/ Len(s) = LegacyLen /\ \A i \in 1..LegacyLen : s[i] \in HexDigits
    \/ /\ Len(s) = ShardedLen
       /\ \A i \in 1..ShardedLen : i # LegacyLen + 1 => s[i] \in HexDigits

\* the documented text format: ^[0-9a-f]{32}$ or ^[0-9a-f]{32}-[0-9a-f]{4}$
IsCanonical(s) ==
    \/ Len(s) = LegacyLen /\ \A i \in 1..LegacyLen : s[i] \in LowerHexDigits
    \/ /\ Len(s) = ShardedLen
       /\ s[LegacyLen + 1] = "-"
       /\ \A i \in 1..ShardedLen : i # LegacyLen + 1 => s[i] \in LowerHexDigits

\* a round trip through text: a constructed value was formatted, the text parsed
TextRoundTrip == input.kind = "id" /\ enc.by = "fmt" /\ dec.by = "from_str"

\* C1 as stated: for every TenantShardId x, whatever its shard_number and
\* shard_count, parsing the text of x succeeds and yields x.
C1_RoundTripAnyFields ==
    TextRoundTrip => dec.res = Ok(input.id)

\* C1 amended: for every TenantShardId x that keeps the legacy sentinel
\* (shard_count == 0 only with shard_number == 0), parsing the text of x
\* succeeds and yields x in all three fields; for an x with shard_count == 0
\* and shard_number # 0 the parse succeeds and yields x with shard_number 0.
C1_RoundTripSentinel ==
    TextRoundTrip =>
        IF Sentinel(input.id)
        THEN dec.res = Ok(input.id)
        ELSE dec.res = Ok([input.id EXCEPT !.shard_number = 0])

C1_Witness ==
    /\ TextRoundTrip
    /\ input.id.shard_count = 255 /\ input.id.shard_number = 10
    /\ dec.res = Ok(input.id)

Constructed == dec.by \in {"from_str", "from_bytes", "deserialize"} /\ dec.res.ok

\* C2 as stated: every value a constructor produces with shard_count == 0 has
\* shard_number == 0 and comes from the 32-character legacy text.
C2_SentinelEveryConstructor ==
    (Constructed /\ dec.res.value.shard_count = 0) =>
        /\ dec.res.value.shard_number = 0
        /\ enc.tok.shape = "str" /\ Len(enc.tok.s) = LegacyLen

\* C2 amended: a value produced from a 32-character text has shard_number == 0
\* and shard_count == 0; a value produced from a 37-character text or from an
\* 18-byte array has the shard_number and shard_count its input spells out,
\* with no check that a zero shard_count comes with a zero shard_number.
C2_SentinelLegacyParse ==
    Constructed =>
        LET v == dec.res.value
        IN IF enc.tok.shape = "seq"
           THEN /\ v.shard_number = enc.tok.elems[PackedLen - 1]
                /\ v.shard_count = enc.tok.elems[PackedLen]
           ELSE IF Len(enc.tok.s) = LegacyLen
           THEN v.shard_number = 0 /\ v.shard_count = 0
           ELSE /\ Len(enc.tok.s) = ShardedLen
                /\ FmtByte(v.shard_number) =
                      <<LowerHex[HexVal(enc.tok.s[ShardedLen - 3]) + 1],
                        LowerHex[HexVal(enc.tok.s[ShardedLen - 2]) + 1]>>
                /\ FmtByte(v.shard_count) =
                      <<LowerHex[HexVal(enc.tok.s[ShardedLen - 1]) + 1],
                        LowerHex[HexVal(enc.tok.s[ShardedLen]) + 1]>>

C2_Witness ==
    /\ dec.by = "from_str" /\ dec.res.ok
    /\ enc.by = "input" /\ Len(enc.tok.s) = LegacyLen
    /\ dec.res.value.shard_count = 0 /\ dec.res.value.shard_number = 0

AcceptedStr == enc.tok.shape = "str" /\ ParseRule(enc.tok.s)

AcceptedSeq ==
    /\ enc.tok.shape = "seq"
    /\ Len(enc.tok.elems) = PackedLen
    /\ \A i \in 1..PackedLen : enc.tok.elems[i] \in 0..255

TextForm(x) ==
    IF x.shard_count = 0 THEN EncodeHex(x.tenant_id)
    ELSE EncodeHex(x.tenant_id) \o <<"-">> \o FmtByte(x.shard_number) \o FmtByte(x.shard_count)

PackedForm(x) == x.tenant_id \o <<x.shard_number, x.shard_count>>

Emitted ==
    (input.kind = "id" /\ enc.by = "serialize") =>
        enc.tok = IF enc.hr THEN StrToken(TextForm(input.id))
                  ELSE SeqToken(PackedForm(input.id))

SameModeRoundTrip ==
    /\ input.kind = "id" /\ enc.by = "serialize"
    /\ dec.by = "deserialize" /\ dec.hr = enc.hr

\* C4 as stated: serializing emits the text form resp. the 18-byte array, and
\* deserializing either output in the same mode yields the value, for every value.
C4_DualModeAnyFields ==
    /\ Emitted
    /\ SameModeRoundTrip => dec.res = Ok(input.id)

\* C4 amended: serializing emits the text form resp. the 18-byte array for
\* every value; deserializing the 18-byte array in the same mode yields the
\* value for every value; deserializing the text in the same mode yields the
\* value for every value that keeps the legacy sentinel, and the value with
\* shard_number 0 for one with shard_count == 0 and shard_number # 0.
C4_DualModeSentinel ==
    /\ Emitted
    /\ SameModeRoundTrip =>
          IF enc.hr /\ ~Sentinel(input.id)
          THEN dec.res = Ok([input.id EXCEPT !.shard_number = 0])
          ELSE dec.res = Ok(input.id)

C4_Witness ==
    /\ SameModeRoundTrip /\ ~enc.hr
    /\ input.id.shard_count = 0 /\ input.id.shard_number = 1
    /\ dec.res = Ok(input.id)

\* the comparison of (shard_number, shard_count) pairs, number first
ShardCoordinatesCmp(a, b) ==
    IF a.shard_number < b.shard_number THEN "Less"
    ELSE IF a.shard_number > b.shard_number THEN "Greater"
    ELSE IF a.shard_count < b.shard_count THEN "Less"
    ELSE IF a.shard_count > b.shard_count THEN "Greater"
    ELSE "Equal"

\* C5: values of different tenants compare as their tenant ids do, values of
\* one tenant compare as their (shard_number, shard_count) pairs do, and no
\* value of another tenant sorts between two values of one tenant.
C5_Ordering ==
    cmp.by = "cmp" =>
        /\ input.a.tenant_id # input.b.tenant_id =>
              cmp.ab = TenantId_cmp(input.a.tenant_id, input.b.tenant_id)
        /\ input.a.tenant_id = input.b.tenant_id =>
              cmp.ab = ShardCoordinatesCmp(input.a, input.b)
        /\ (cmp.ab = "Less" /\ cmp.bc = "Less" /\ input.a.tenant_id = input.c.tenant_id) =>
              input.b.tenant_id = input.a.tenant_id

C5_Witness ==
    /\ cmp.by = "cmp"
    /\ input.a.tenant_id # input.b.tenant_id
    /\ input.a.shard_number > input.b.shard_number
    /\ cmp.ab = "Less"

\* C6: a text whose length is neither 32 nor 37 fails to parse as a
\* TenantShardId, and a text whose length is not 4 fails to parse as a
\* ShardIndex, with InvalidStringLength and no value, whatever its characters.
C6_LengthErrors ==
    /\ (dec.by = "from_str" /\ Len(enc.tok.s) \notin {LegacyLen, ShardedLen}) =>
          dec.res = Err("InvalidStringLength")
    /\ (dec.by = "index_from_str" /\ Len(enc.tok.s) # SlugLen) =>
          dec.res = Err("InvalidStringLength")

C6_Witness ==
    /\ dec.by = "from_str"
    /\ Len(enc.tok.s) = ShardedLen + 1
    /\ \E i \in 1..Len(enc.tok.s) : enc.tok.s[i] \notin HexDigits \cup {"-"}
    /\ dec.res = Err("InvalidStringLength")

SeparatorChars == AltChars \cup {"-", "_", "x", "1"}

\* C7: the outcome of parsing a 37-character text does not depend on the
\* character at index 32: the text with any other character there parses to
\* the same value or fails with the same error.
C7_SeparatorSkipped ==
    (dec.by = "from_str" /\ Len(enc.tok.s) = ShardedLen) =>
        \A c \in SeparatorChars :
            TenantShardId_from_str([enc.tok.s EXCEPT ![LegacyLen + 1] = c]) = dec.res

C7_Witness ==
    /\ dec.by = "from_str" /\ Len(enc.tok.s) = ShardedLen
    /\ enc.tok.s[LegacyLen + 1] = "g"
    /\ dec.res.ok /\ dec.res.value.shard_count = 4

CanonicalParsed == enc.by = "input" /\ enc.tok.shape = "str" /\ IsCanonical(enc.tok.s)

\* C8 as stated: every text of the documented format parses, and formatting
\* the parsed value gives back the text.
C8_CanonicalFixedPoint ==
    CanonicalParsed =>
        /\ dec.by = "from_str" => dec.res.ok
        /\ (dec.by = "from_str" /\ re.by = "fmt") => re.s = enc.tok.s

\* C8 amended: every text of the documented format parses; formatting the
\* parsed value gives back the text unless the text is of the 37-character
\* form with a shard count of "00", and then it gives the first 32 characters.
C8_CanonicalFixedPointNonZeroCount ==
    CanonicalParsed =>
        /\ dec.by = "from_str" => dec.res.ok
        /\ (dec.by = "from_str" /\ re.by = "fmt") =>
              IF /\ Len(enc.tok.s) = ShardedLen
                 /\ enc.tok.s[ShardedLen - 1] = "0" /\ enc.tok.s[ShardedLen] = "0"
              THEN re.s = SubSeq(enc.tok.s, 1, LegacyLen)
              ELSE re.s = enc.tok.s

C8_Witness ==
    /\ CanonicalParsed /\ dec.by = "from_str" /\ re.by = "fmt"
    /\ Len(enc.tok.s) = ShardedLen
    /\ enc.tok.s[1] = "f" /\ enc.tok.s[ShardedLen] = "a"
    /\ re.s = enc.tok.s

Formatted == input.kind = "id" /\ enc.by = "fmt"

\* C9 as stated: two values that differ in any field never format to the same text.
C9_FormatInjective ==
    Formatted =>
        \A y \in Ids : y # input.id => TenantShardId_fmt(y) # enc.tok.s

\* C9 amended: two values format to the same text exactly when they have the
\* same tenant id and either the same shard_number and shard_count or both
\* shard_count == 0; so the text is injective on the values that keep the
\* legacy sentinel, and a legacy value and a single-shard value of one tenant
\* format to different texts.
C9_FormatInjectiveSentinel ==
    Formatted =>
        \A y \in Ids :
            (TenantShardId_fmt(y) = enc.tok.s) <=>
                /\ y.tenant_id = input.id.tenant_id
                /\ \/ y.shard_count = 0 /\ input.id.shard_count = 0
                   \/ /\ y.shard_number = input.id.shard_number
                      /\ y.shard_count = input.id.shard_count

C9_Witness ==
    /\ Formatted
    /\ input.id.shard_count = 1 /\ input.id.shard_number = 0
    /\ Len(enc.tok.s) = ShardedLen

====
